---- MODULE Spec2Model ----
(***************************************************************************)
(* Job/run orchestration of tbench-harbor-runner.                          *)
(*                                                                         *)
(* One submission (create_job_and_queue_runs) creates a Job and n_runs Run *)
(* rows in an uncommitted session and enqueues one work item per Run; a    *)
(* pool of workers executes run_harbor_task for the queued items.  The     *)
(* relational store is READ COMMITTED: uncommitted rows are invisible to   *)
(* other sessions, every statement sees the latest committed rows, and an  *)
(* ORM flush is an UPDATE keyed by primary key only.  The store can be     *)
(* unreachable (storeUp = FALSE); every statement issued then raises.      *)
(***************************************************************************)
EXTENDS Integers, Sequences, FiniteSets, TLC

(* ---- bounds of the model ---- *)
MaxRuns == 2
NumWorkers == 2

(* ---- program constants ---- *)
MinNRuns == 1
MaxNRuns == 100
max_retries == 3
reconcile_max_retries == 3

Workers == 1..NumWorkers

(* the run counts a caller submits: valid ones up to the bound, and one    *)
(* on each side of the accepted interval                                   *)
RunCounts == (0..MaxRuns) \cup {MaxNRuns + 1}

(* JobStatus *)
PENDING == "pending"
RUNNING == "running"
COMPLETED == "completed"
FAILED == "failed"
JobStatus == {PENDING, RUNNING, COMPLETED, FAILED}
Terminal == {COMPLETED, FAILED}

(* a NULL DateTime column; a written one holds the value utcnow() returned *)
NoTime == <<>>
NoTask == [job_id |-> 0, run_id |-> 0, run_number |-> 0, retries |-> 0]

(* exception classes that reach the handler of run_harbor_task:           *)
(* asyncio.run(run_harbor_async()) raises one of the retriable classes     *)
(* (OSError, e.g. no descriptor left for the event loop) or another class  *)
(* (ValueError from ModelType(model)); a store statement raises a          *)
(* SQLAlchemy error, which is not of the retriable classes                 *)
NoExc == "none"
HarnessExceptions == {"OSError", "ValueError"}
StoreError == "SQLAlchemyError"

VARIABLES
    subPc,      \* position of upload_task / create_job_and_queue_runs
    n_runs,     \* the requested run count
    subK,       \* number of completed iterations of the run loop
    session,    \* the submitter's uncommitted rows: [job, runs]
    dispatched, \* run ids passed to run_harbor_task.delay, in order
    jobs,       \* committed rows of table jobs, by id
    runs,       \* committed rows of table runs, by id
    queue,      \* work items in the broker
    storeUp,    \* whether the store answers
    wk,         \* per worker: position and locals of run_harbor_task
    ex          \* one call of HarborService.run_task / parse_harbor_results

vars == <<subPc, n_runs, subK, session, dispatched, jobs, runs, queue, storeUp, wk, ex>>

Range(s) == {s[k] : k \in DOMAIN s}

(* uuid.uuid4(): a token different from every token in use *)
uuid4(used) == CHOOSE x \in 1..(Cardinality(used) + 1) : x \notin used

(* datetime.utcnow() called by the attempt that processes work item t: a   *)
(* value no other attempt obtains                                          *)
utcnow(t) == <<t.run_id, t.retries>>

(* no executor call in progress *)
NoExec == [pc |-> "none"]

IdleWorker ==
    [pc |-> "idle", task |-> NoTask, exc |-> NoExc, result |-> "none",
     attempt |-> 0, all_done |-> FALSE, job_status |-> "none"]

Init ==
    /\ subPc = "idle"
    /\ n_runs = 0
    /\ subK = 0
    /\ session = [job |-> <<>>, runs |-> <<>>]
    /\ dispatched = <<>>
    /\ jobs = <<>>
    /\ runs = <<>>
    /\ queue = {}
    /\ storeUp = TRUE
    /\ wk = [w \in Workers |-> IdleWorker]
    /\ ex = NoExec

(* ------------------------------------------------------------------ *)
(* Submission                                                          *)
(* ------------------------------------------------------------------ *)

(* the validation written without its upper limit *)
ValidNRunsNoMax(n) == ~(n < MinNRuns)

(* upload_task: the n_runs validation *)
ValidNRuns(n) == ~(n < MinNRuns \/ n > MaxNRuns)

(* the loop written as range(n_runs): indices from 0 *)
range_off(n) == [k \in 1..n |-> k - 1]

(* range(1, n_runs + 1), as the sequence of values the loop takes *)
range_runs(n) == [k \in 1..n |-> k]

NewJob(id) == [id |-> id, status |-> PENDING, completed_at |-> NoTime]

NewRun(id, job_id, i) ==
    [id |-> id, job_id |-> job_id, run_number |-> i, status |-> PENDING,
     started_at |-> NoTime, completed_at |-> NoTime]

(* the arguments of run_harbor_task.delay(...) as a first-delivery message *)
WorkItem(job_id, run_id, i) ==
    [job_id |-> job_id, run_id |-> run_id, run_number |-> i, retries |-> 0]

SessionIds == {session.job[k].id : k \in DOMAIN session.job}
                 \cup {session.runs[k].id : k \in DOMAIN session.runs}

(* upload_task up to and including session.add(job); session.flush() *)
Submit(n) ==
    /\ subPc = "idle"
    /\ n_runs' = n
    /\ IF ~ValidNRuns(n)
         THEN /\ subPc' = "rejected"
              /\ UNCHANGED session
         ELSE IF ~storeUp
         THEN /\ subPc' = "error"
              /\ UNCHANGED session
         ELSE /\ subPc' = "loop"
              /\ session' = [session EXCEPT !.job = <<NewJob(uuid4({}))>>]
    /\ UNCHANGED <<subK, dispatched, jobs, runs, queue, storeUp, wk, ex>>

(* one iteration of the run loop: session.add(run); run_harbor_task.delay  *)
(* brokerOk = FALSE: the broker refuses the message and delay raises       *)
SubmitLoop(brokerOk) ==
    /\ subPc = "loop"
    /\ subK < Len(range_runs(n_runs))
    /\ LET i == range_runs(n_runs)[subK + 1]
           job_id == session.job[1].id
           run_id == uuid4(SessionIds)
       IN IF brokerOk
            THEN /\ session' = [session EXCEPT
                                  !.runs = Append(@, NewRun(run_id, job_id, i))]
                 /\ queue' = queue \cup {WorkItem(job_id, run_id, i)}
                 /\ dispatched' = Append(dispatched, run_id)
                 /\ subK' = subK + 1
                 /\ UNCHANGED subPc
            ELSE /\ subPc' = "error"
                 /\ session' = [job |-> <<>>, runs |-> <<>>]
                 /\ UNCHANGED <<queue, dispatched, subK>>
    /\ UNCHANGED <<n_runs, jobs, runs, storeUp, wk, ex>>

(* session.commit(): the Job row and the Run rows become visible together *)
SubmitCommit ==
    /\ subPc = "loop"
    /\ subK = Len(range_runs(n_runs))
    /\ IF storeUp
         THEN /\ subPc' = "done"
              /\ jobs' = jobs @@ [id \in {session.job[1].id} |-> session.job[1]]
              /\ runs' = runs @@ [id \in {r.id : r \in Range(session.runs)} |->
                                    CHOOSE r \in Range(session.runs) : r.id = id]
         ELSE /\ subPc' = "error"
              /\ UNCHANGED <<jobs, runs>>
    /\ session' = [job |-> <<>>, runs |-> <<>>]
    /\ UNCHANGED <<n_runs, subK, dispatched, queue, storeUp, wk, ex>>

(* ------------------------------------------------------------------ *)
(* run_harbor_task                                                     *)
(* ------------------------------------------------------------------ *)

(* a broker that keeps offering a message it has handed out *)
Redeliver(q, item) == q

(* the broker hands a message to one worker and no longer offers it *)
Deliver(q, item) == q \ {item}

(* the update written as UPDATE runs ... WHERE job_id = <the Run's job>:   *)
(* every Run of the Job is written                                         *)
update_runs_of_job(rows, run_id, status, kwargs) ==
    IF run_id \in DOMAIN rows
      THEN [r \in DOMAIN rows |->
              IF rows[r].job_id = rows[run_id].job_id
                THEN [f \in DOMAIN rows[r] |->
                        IF f = "status" THEN status
                        ELSE IF f \in DOMAIN kwargs THEN kwargs[f]
                        ELSE rows[r][f]]
                ELSE rows[r]]
      ELSE rows

(* update_run_status: session.get(Run, run_id); if run: set status and    *)
(* the keyword fields; commit                                              *)
update_run_status(rows, run_id, status, kwargs) ==
    IF run_id \in DOMAIN rows
      THEN [rows EXCEPT ![run_id] =
              [f \in DOMAIN @ |->
                 IF f = "status" THEN status
                 ELSE IF f \in DOMAIN kwargs THEN kwargs[f] ELSE @[f]]]
      ELSE rows

(* the test written with any(...) in place of all(...) *)
AnyTerminal(statuses) == \E s \in statuses : s \in Terminal

(* the test written so that only Completed counts as finished *)
AllCompleted(statuses) == \A s \in statuses : s = COMPLETED

(* all(run.status in [COMPLETED, FAILED] for run in all_runs) *)
AllTerminal(statuses) == \A s \in statuses : s \in Terminal

(* select(Run).where(Run.job_id == job_id), as the statuses it returns *)
SiblingStatuses(job_id) ==
    {runs[r].status : r \in {x \in DOMAIN runs : runs[x].job_id = job_id}}

(* isinstance(exc, (ConnectionError, TimeoutError, OSError)) *)
IsRetriable(exc) == exc \in {"ConnectionError", "TimeoutError", "OSError"}

(* self.retry(exc=exc, countdown=60): the messages it publishes; none     *)
(* when the next retry number exceeds max_retries                          *)
RetryMessages(t) ==
    IF t.retries + 1 > max_retries
      THEN {}
      ELSE {[t EXCEPT !.retries = @ + 1]}

Goto(w, pc) == wk' = [wk EXCEPT ![w].pc = pc]
Return(w) == wk' = [wk EXCEPT ![w] = IdleWorker]
Raise(w, exc) == wk' = [wk EXCEPT ![w].pc = "except", ![w].exc = exc]

(* a worker takes a work item off the queue and enters the task body *)
Receive(w) ==
    /\ wk[w].pc = "idle"
    /\ \E item \in queue :
         /\ queue' = Deliver(queue, item)
         /\ wk' = [wk EXCEPT ![w].pc = "mark_running", ![w].task = item]
    /\ UNCHANGED <<subPc, n_runs, subK, session, dispatched, jobs, runs, storeUp, ex>>

(* update_run_status(JobStatus.RUNNING, started_at=datetime.utcnow()) *)
MarkRunning(w) ==
    /\ wk[w].pc = "mark_running"
    /\ IF storeUp
         THEN /\ runs' = update_run_status(runs, wk[w].task.run_id, RUNNING,
                                           [started_at |-> utcnow(wk[w].task)])
              /\ Goto(w, "job_get")
         ELSE /\ Raise(w, StoreError)
              /\ UNCHANGED runs
    /\ UNCHANGED <<subPc, n_runs, subK, session, dispatched, jobs, queue, storeUp, ex>>

(* job = session.get(Job, job_id); if job and job.status == PENDING *)
JobGet(w) ==
    /\ wk[w].pc = "job_get"
    /\ LET j == wk[w].task.job_id
       IN IF storeUp /\ j \in DOMAIN jobs /\ jobs[j].status = PENDING
            THEN Goto(w, "job_commit")
            ELSE Goto(w, "harness")
    /\ UNCHANGED <<subPc, n_runs, subK, session, dispatched, jobs, runs, queue, storeUp, ex>>

(* job.status = JobStatus.RUNNING; session.commit(); a store error is     *)
(* rolled back and ignored                                                 *)
JobCommit(w) ==
    /\ wk[w].pc = "job_commit"
    /\ IF storeUp
         THEN jobs' = [jobs EXCEPT ![wk[w].task.job_id].status = RUNNING]
         ELSE UNCHANGED jobs
    /\ Goto(w, "harness")
    /\ UNCHANGED <<subPc, n_runs, subK, session, dispatched, runs, queue, storeUp, ex>>

(* result = asyncio.run(run_harbor_async()): HarborService.run_task       *)
(* returns an outcome classified completed or failed, or the call raises   *)
Harness(w) ==
    /\ wk[w].pc = "harness"
    /\ \/ \E st \in {"completed", "failed"} :
            wk' = [wk EXCEPT ![w].pc = "persist", ![w].result = st]
       \/ \E e \in HarnessExceptions : Raise(w, e)
    /\ UNCHANGED <<subPc, n_runs, subK, session, dispatched, jobs, runs, queue, storeUp, ex>>

(* update_run_status(COMPLETED if result["status"] == "completed" else    *)
(* FAILED, ..., completed_at=datetime.utcnow())                            *)
Persist(w) ==
    /\ wk[w].pc = "persist"
    /\ IF storeUp
         THEN /\ runs' = update_run_status(runs, wk[w].task.run_id,
                            IF wk[w].result = "completed" THEN COMPLETED ELSE FAILED,
                            [completed_at |-> utcnow(wk[w].task)])
              /\ wk' = [wk EXCEPT ![w].pc = "rec_select", ![w].attempt = 0]
         ELSE /\ Raise(w, StoreError)
              /\ UNCHANGED runs
    /\ UNCHANGED <<subPc, n_runs, subK, session, dispatched, jobs, queue, storeUp, ex>>

(* the except branch written to re-raise after the last iteration *)
ReconcileRollbackRaises(w) ==
    IF wk[w].attempt = reconcile_max_retries - 1
      THEN Raise(w, StoreError)
      ELSE wk' = [wk EXCEPT ![w].pc = "rec_select", ![w].attempt = @ + 1,
                            ![w].all_done = FALSE, ![w].job_status = "none"]

(* the except branch of the reconcile loop: rollback, then the next       *)
(* iteration, or give up after the last one                                *)
ReconcileRollback(w) ==
    IF wk[w].attempt = reconcile_max_retries - 1
      THEN Return(w)
      ELSE wk' = [wk EXCEPT ![w].pc = "rec_select", ![w].attempt = @ + 1,
                            ![w].all_done = FALSE, ![w].job_status = "none"]

(* runs = session.execute(select(Run)...); the all(...) test *)
ReconcileSelectRuns(w) ==
    /\ wk[w].pc = "rec_select"
    /\ IF ~storeUp
         THEN ReconcileRollback(w)
         ELSE IF AllTerminal(SiblingStatuses(wk[w].task.job_id))
         THEN wk' = [wk EXCEPT ![w].pc = "rec_get_job", ![w].all_done = TRUE]
         ELSE Return(w)
    /\ UNCHANGED <<subPc, n_runs, subK, session, dispatched, jobs, runs, queue, storeUp, ex>>

(* job = session.get(Job, job_id); the not-already-terminal test *)
ReconcileGetJob(w) ==
    /\ wk[w].pc = "rec_get_job"
    /\ LET j == wk[w].task.job_id
       IN IF ~storeUp
            THEN ReconcileRollback(w)
            ELSE IF j \in DOMAIN jobs /\ jobs[j].status \notin Terminal
            THEN wk' = [wk EXCEPT ![w].pc = "rec_commit",
                                  ![w].job_status = jobs[j].status]
            ELSE Return(w)
    /\ UNCHANGED <<subPc, n_runs, subK, session, dispatched, jobs, runs, queue, storeUp, ex>>

(* job.status = COMPLETED; job.completed_at = utcnow(); session.commit() *)
ReconcileCommit(w) ==
    /\ wk[w].pc = "rec_commit"
    /\ IF ~storeUp
         THEN /\ ReconcileRollback(w)
              /\ UNCHANGED jobs
         ELSE /\ jobs' = [jobs EXCEPT ![wk[w].task.job_id] =
                            [@ EXCEPT !.status = COMPLETED,
                                      !.completed_at = utcnow(wk[w].task)]]
              /\ Return(w)
    /\ UNCHANGED <<subPc, n_runs, subK, session, dispatched, runs, queue, storeUp, ex>>

(* the handler written to mark the Job Failed as well *)
RecordFailureFailsJob(w) ==
    /\ wk[w].pc = "except"
    /\ IF storeUp
         THEN /\ runs' = update_run_status(runs, wk[w].task.run_id, FAILED,
                                           [completed_at |-> utcnow(wk[w].task)])
              /\ jobs' = [j \in DOMAIN jobs |->
                            IF j = wk[w].task.job_id
                              THEN [jobs[j] EXCEPT !.status = FAILED]
                              ELSE jobs[j]]
         ELSE UNCHANGED <<runs, jobs>>
    /\ Goto(w, "retry_or_raise")
    /\ UNCHANGED <<subPc, n_runs, subK, session, dispatched, queue, storeUp, ex>>

(* except Exception as exc: update_run_status(FAILED, error=...,          *)
(* completed_at=utcnow()); a store error here is printed and ignored       *)
RecordFailure(w) ==
    /\ wk[w].pc = "except"
    /\ IF storeUp
         THEN runs' = update_run_status(runs, wk[w].task.run_id, FAILED,
                                        [completed_at |-> utcnow(wk[w].task)])
         ELSE UNCHANGED runs
    /\ Goto(w, "retry_or_raise")
    /\ UNCHANGED <<subPc, n_runs, subK, session, dispatched, jobs, queue, storeUp, ex>>

(* if isinstance(exc, ...): raise self.retry(exc=exc, countdown=60)       *)
(* else: raise                                                             *)
RetryOrRaise(w) ==
    /\ wk[w].pc = "retry_or_raise"
    /\ IF IsRetriable(wk[w].exc)
         THEN queue' = queue \cup RetryMessages(wk[w].task)
         ELSE UNCHANGED queue
    /\ Return(w)
    /\ UNCHANGED <<subPc, n_runs, subK, session, dispatched, jobs, runs, storeUp, ex>>

(* ------------------------------------------------------------------ *)
(* The store becoming unreachable and reachable again                  *)
(* ------------------------------------------------------------------ *)
StoreFails ==
    /\ storeUp
    /\ storeUp' = FALSE
    /\ UNCHANGED <<subPc, n_runs, subK, session, dispatched, jobs, runs, queue, wk, ex>>

StoreRecovers ==
    /\ ~storeUp
    /\ storeUp' = TRUE
    /\ UNCHANGED <<subPc, n_runs, subK, session, dispatched, jobs, runs, queue, wk, ex>>

Next ==
    \/ \E n \in RunCounts : Submit(n)
    \/ \E ok \in BOOLEAN : SubmitLoop(ok)
    \/ SubmitCommit
    \/ \E w \in Workers : Receive(w)
    \/ \E w \in Workers : MarkRunning(w)
    \/ \E w \in Workers : JobGet(w)
    \/ \E w \in Workers : JobCommit(w)
    \/ \E w \in Workers : Harness(w)
    \/ \E w \in Workers : Persist(w)
    \/ \E w \in Workers : ReconcileSelectRuns(w)
    \/ \E w \in Workers : ReconcileGetJob(w)
    \/ \E w \in Workers : ReconcileCommit(w)
    \/ \E w \in Workers : RecordFailure(w)
    \/ \E w \in Workers : RetryOrRaise(w)
    \/ StoreFails
    \/ StoreRecovers

Spec == Init /\ [][Next]_vars

(* ------------------------------------------------------------------ *)
(* Properties                                                          *)
(* ------------------------------------------------------------------ *)

Active(w) == wk[w].pc # "idle"

(* nothing is queued and no attempt is in progress *)
Quiescent == queue = {} /\ \A w \in Workers : ~Active(w)

RunsOf(j) == {r \in DOMAIN runs : runs[r].job_id = j}

(* C1: once a Run is stored as Completed or Failed, no later write       *)
(* changes its status (the stored sequence is a prefix of Pending,       *)
(* Running, then one terminal value).                                    *)
C1_RunStatusMonotonic ==
    [][\A r \in DOMAIN runs :
          runs[r].status \in Terminal => runs'[r].status = runs[r].status]_vars

(* C2: among racing finishers exactly one writes the Job's transition    *)
(* to Completed: completed_at is written only when the Job's stored      *)
(* status at write time is not terminal.                                 *)
C2_SingleJobTransition ==
    [][\A j \in DOMAIN jobs :
          jobs'[j].completed_at # jobs[j].completed_at
            => jobs[j].status \notin Terminal]_vars

(* C3: reconciliation follows every terminal record, whichever path      *)
(* recorded it: when no attempt or retry remains and every Run of the    *)
(* Job is Completed or Failed, the Job is Completed with completed_at    *)
(* set.                                                                  *)
C3_JobCompletedWhenRunsTerminal ==
    (Quiescent /\ subPc = "done")
      => \A j \in DOMAIN jobs :
            (\A r \in RunsOf(j) : runs[r].status \in Terminal)
              => jobs[j].status = COMPLETED /\ jobs[j].completed_at # NoTime

(* C4: a reconcile step writes Completed to the Job only when every      *)
(* Run in its read of the sibling set was Completed or Failed and the    *)
(* Job it read was not terminal; a reconcile step whose read contains a  *)
(* Pending or Running sibling leaves the Job row unchanged.              *)
C4_ReconcileOnlyWhenAllTerminal ==
    [][/\ \A w \in Workers :
            LET j == wk[w].task.job_id
            IN /\ (wk[w].pc = "rec_select" /\ wk'[w].pc = "rec_get_job")
                    => \A r \in RunsOf(j) : runs[r].status \in Terminal
               /\ (wk[w].pc = "rec_get_job" /\ wk'[w].pc = "rec_commit")
                    => jobs[j].status \notin Terminal
               /\ (/\ wk[w].pc = "rec_select"
                   /\ wk'[w] # wk[w]
                   /\ \E r \in RunsOf(j) : runs[r].status \notin Terminal)
                    => jobs' = jobs /\ wk'[w].pc \in {"idle", "rec_select"}
       /\ \A j \in DOMAIN jobs :
            (\/ jobs'[j].completed_at # jobs[j].completed_at
             \/ (jobs'[j].status = COMPLETED /\ jobs[j].status # COMPLETED))
              => \E w \in Workers :
                    /\ wk[w].pc = "rec_commit" /\ wk'[w].pc = "idle"
                    /\ wk[w].task.job_id = j
                    /\ wk[w].all_done
                    /\ wk[w].job_status \notin Terminal]_vars

(* C4 witness: a reconcile step has completed a Job of two Runs *)
C4_Witness ==
    \E j \in DOMAIN jobs :
        /\ jobs[j].status = COMPLETED
        /\ Cardinality(RunsOf(j)) >= 2
        /\ \A r \in RunsOf(j) : runs[r].status \in Terminal

(* C5: every work item in the queue refers to a Run (and Job) that is    *)
(* committed and readable by a worker.                                   *)
C5_EnqueueAfterCommit ==
    \A item \in queue :
        item.run_id \in DOMAIN runs /\ item.job_id \in DOMAIN jobs

(* C6: a successful submission with run count N creates one Pending Job  *)
(* and exactly N Pending Runs whose run indices are exactly 1..N, and    *)
(* has enqueued exactly N work items, one per Run id.                    *)
C6_SubmissionCreatesRuns ==
    [][(subPc = "loop" /\ subPc' = "done")
         => /\ n_runs \in MinNRuns..MaxNRuns
            /\ Cardinality(DOMAIN jobs') = 1
            /\ \A j \in DOMAIN jobs' : jobs'[j].status = PENDING
            /\ Cardinality(DOMAIN runs') = n_runs
            /\ \A r \in DOMAIN runs' :
                  runs'[r].status = PENDING /\ runs'[r].job_id \in DOMAIN jobs'
            /\ {runs'[r].run_number : r \in DOMAIN runs'} = 1..n_runs
            /\ Len(dispatched') = n_runs
            /\ Range(dispatched') = DOMAIN runs']_vars

(* C6 witness: a submission of more than one Run has committed *)
C6_Witness == subPc = "done" /\ n_runs >= 2 /\ Cardinality(DOMAIN runs) = n_runs

(* C7: whenever a retry of a Run is pending in the queue, that Run's     *)
(* stored status is Failed.                                              *)
C7_FailedBeforeRetry ==
    \A item \in queue :
        item.retries > 0
          => item.run_id \in DOMAIN runs /\ runs[item.run_id].status = FAILED

(* C8: at most max_retries retries of a Run are scheduled, and when the  *)
(* attempt at the ceiling fails the Run is left Failed with no further   *)
(* attempt enqueued.                                                     *)
C8_RetryCeiling ==
    /\ [](/\ \A item \in queue : item.retries <= max_retries
          /\ \A w \in Workers : wk[w].task.retries <= max_retries)
    /\ [][\A w \in Workers :
            (/\ wk[w].pc = "retry_or_raise" /\ wk'[w].pc = "idle"
             /\ IsRetriable(wk[w].exc)
             /\ wk[w].task.retries = max_retries)
              => /\ \A item \in queue' : item.run_id # wk[w].task.run_id
                 /\ wk[w].task.run_id \in DOMAIN runs'
                 /\ runs'[wk[w].task.run_id].status = FAILED]_vars

(* C9: when an attempt ends with an error outside the connection /       *)
(* timeout / OS-IO class, the Run is recorded as Failed and no retry of  *)
(* it is scheduled.                                                      *)
C9_FatalNotRetried ==
    [][\A w \in Workers :
          (/\ wk[w].pc = "retry_or_raise" /\ wk'[w].pc = "idle"
           /\ ~IsRetriable(wk[w].exc))
            => /\ \A item \in queue' : item.run_id # wk[w].task.run_id
               /\ wk[w].task.run_id \in DOMAIN runs'
               /\ runs'[wk[w].task.run_id].status = FAILED]_vars

(* C10: no two execution attempts of the same Run are in progress at     *)
(* once, and a queued (re)try of a Run exists only while no attempt of   *)
(* that Run is in progress.                                              *)
C10_OneAttemptPerRun ==
    /\ \A w1, w2 \in Workers :
          (w1 # w2 /\ Active(w1) /\ Active(w2))
            => wk[w1].task.run_id # wk[w2].task.run_id
    /\ \A w \in Workers : \A item \in queue :
          Active(w) => item.run_id # wk[w].task.run_id
    /\ \A i1, i2 \in queue : i1.run_id = i2.run_id => i1 = i2

(* C10 witness: a retry attempt of one Run is executing while another    *)
(* worker executes a sibling                                             *)
C10_Witness ==
    \E w1, w2 \in Workers :
        /\ wk[w1].pc = "harness" /\ wk[w1].task.retries > 0
        /\ wk[w2].pc = "harness" /\ wk[w2].task.run_id # wk[w1].task.run_id

(* the status an update_run_status call of worker w asks for *)
RequestedStatus(w) ==
    IF wk[w].pc = "mark_running" THEN RUNNING
    ELSE IF wk[w].pc = "persist"
      THEN (IF wk[w].result = "completed" THEN COMPLETED ELSE FAILED)
    ELSE FAILED

(* C11: reconciliation is idempotent: once the Job is stored as          *)
(* Completed, a reconcile step of any worker leaves its status and its   *)
(* completed_at as the first transition wrote them.                      *)
C11_ReconcileIdempotent ==
    [][\A j \in DOMAIN jobs : \A w \in Workers :
          (/\ jobs[j].status = COMPLETED
           /\ wk[w].pc \in {"rec_select", "rec_get_job", "rec_commit"}
           /\ wk'[w] # wk[w])
            => jobs'[j] = jobs[j]]_vars

(* C13: a failing Run does not fail or block the parent Job: no step     *)
(* writes Failed to a Job, and when every Run has ended (any mix of      *)
(* Completed and Failed) and nothing remains to run, the Job is          *)
(* Completed.                                                            *)
C13_FailedRunsDoNotFailJob ==
    /\ [](\A j \in DOMAIN jobs : jobs[j].status # FAILED)
    /\ []((Quiescent /\ subPc = "done")
            => \A j \in DOMAIN jobs :
                  (\A r \in RunsOf(j) : runs[r].status \in Terminal)
                    => jobs[j].status = COMPLETED)

(* C14: a Job's completed_at is set exactly when its status is           *)
(* Completed or Failed.                                                  *)
C14_JobCompletedAtIffTerminal ==
    \A j \in DOMAIN jobs :
        (jobs[j].completed_at # NoTime) <=> (jobs[j].status \in Terminal)

(* C15: an update_run_status call that would move a Run out of           *)
(* Completed or Failed leaves the stored row unchanged and raises.       *)
C15_UpdateRejectsBackwardTransition ==
    [][\A w \in Workers :
          LET r == wk[w].task.run_id
          IN (/\ wk[w].pc \in {"mark_running", "persist", "except"}
              /\ wk'[w] # wk[w]
              /\ storeUp
              /\ r \in DOMAIN runs
              /\ runs[r].status \in Terminal
              /\ RequestedStatus(w) # runs[r].status)
               => /\ runs'[r] = runs[r]
                  /\ wk[w].pc # "except" => wk'[w].pc = "except"]_vars

(* ------------------------------------------------------------------ *)
(* The reconciler fed with terminal outcomes in every arrival order    *)
(* ------------------------------------------------------------------ *)

Min(a, b) == IF a < b THEN a ELSE b

(* the state in which the n Runs of a committed Job are each executing   *)
(* on a worker of their own and every executor call has just returned    *)
(* its outcome: worker w holds Run w + 1 (the Job has id 1)              *)
ReconInit ==
    \E n \in 1..Min(MaxRuns, NumWorkers) :
    \E outcome \in [1..n -> {"completed", "failed"}] :
    \E js \in {PENDING, RUNNING} :
        /\ subPc = "done"
        /\ n_runs = n
        /\ subK = n
        /\ session = [job |-> <<>>, runs |-> <<>>]
        /\ dispatched = [k \in 1..n |-> k + 1]
        /\ jobs = [id \in {1} |-> [NewJob(1) EXCEPT !.status = js]]
        /\ runs = [id \in 2..(n + 1) |->
                     [NewRun(id, 1, id - 1) EXCEPT
                        !.status = RUNNING,
                        !.started_at = utcnow(WorkItem(1, id, id - 1))]]
        /\ queue = {}
        /\ storeUp = TRUE
        /\ wk = [w \in Workers |->
                   IF w <= n
                     THEN [IdleWorker EXCEPT
                             !.pc = "persist",
                             !.task = WorkItem(1, w + 1, w),
                             !.result = outcome[w]]
                     ELSE IdleWorker]
        /\ ex = NoExec

ReconNext ==
    \/ \E w \in Workers : Persist(w)
    \/ \E w \in Workers : ReconcileSelectRuns(w)
    \/ \E w \in Workers : ReconcileGetJob(w)
    \/ \E w \in Workers : ReconcileCommit(w)

ReconSpec == ReconInit /\ [][ReconNext]_vars


(* C12: order-independence: whatever terminal status each Run is given   *)
(* and in whatever order the terminal writes and the reconcile steps of  *)
(* the workers interleave, once all of them have ended the Job status is *)
(* the same one, Completed.                                              *)
C12_OrderIndependent ==
    (\A w \in Workers : ~Active(w))
      => /\ \A j \in DOMAIN jobs : jobs[j].status = COMPLETED
         /\ \A r \in DOMAIN runs : runs[r].status \in Terminal

(* C12 witness: two Runs, one Completed and one Failed, have both ended  *)
(* and been reconciled                                                   *)
C12_Witness ==
    /\ \A w \in Workers : ~Active(w)
    /\ \E r1, r2 \in DOMAIN runs :
          runs[r1].status = COMPLETED /\ runs[r2].status = FAILED
    /\ \A j \in DOMAIN jobs : jobs[j].status = COMPLETED

(* ------------------------------------------------------------------ *)
(* Result Decoder: parse_harbor_results                                *)
(* ------------------------------------------------------------------ *)

(* the largest count written in a ctrf.json summary *)
MaxTests == 2

(* a key absent from the summary object *)
Missing == -1

Counts == {Missing} \cup (0..MaxTests)

(* verifier/ctrf.json: absent, unparsable (with the counts a reader     *)
(* ignoring the damage would still find in it), or a parsable document   *)
NoCtrf == [state |-> "absent", passed |-> Missing, tests |-> Missing,
           failed |-> Missing]

CtrfFiles ==
    {NoCtrf} \cup
    [state : {"ok", "malformed"}, passed : Counts, tests : Counts,
     failed : Counts]

(* verifier/reward.txt: absent, not a number, or a number given in tenths *)
NoReward == [state |-> "absent", tenths |-> 0]

RewardFiles ==
    {NoReward, [state |-> "garbage", tenths |-> 0]} \cup
    [state : {"ok"}, tenths : 0..10]

(* dict.get(key, 0) *)
Get(v) == IF v = Missing THEN 0 ELSE v

(* int(float(text)) of a reward written in tenths: truncation *)
IntOfReward(tenths) == tenths \div 10

Decoded(passed, total, failed, format) ==
    [passed |-> passed, total |-> total, failed |-> failed,
     format |-> format, raised |-> FALSE, exc |-> "none"]

(* an exception leaving a block, by class name *)
Raised(cls) ==
    [passed |-> 0, total |-> 0, failed |-> 0, format |-> "none",
     raised |-> TRUE, exc |-> cls]

(* the classes derived from Exception that the calls made here raise *)
ExceptionClasses ==
    {"Exception", "OSError", "FileNotFoundError", "TypeError", "ValueError",
     "JSONDecodeError"}

(* a handler written for OSError only *)
CatchesOSError(cls) == cls \in {"OSError", "FileNotFoundError"}

(* except Exception *)
Catches(cls) == cls \in ExceptionClasses

(* the summary read with passed and failed exchanged *)
load_ctrf_swapped(ctrf) ==
    IF ctrf.state = "ok"
      THEN Decoded(Get(ctrf.failed), Get(ctrf.tests), Get(ctrf.passed), "ctrf")
      ELSE Raised("JSONDecodeError")

(* lines 22-33: json.load and the summary lookups inside the try *)
load_ctrf(ctrf) ==
    IF ctrf.state = "ok"
      THEN Decoded(Get(ctrf.passed), Get(ctrf.tests), Get(ctrf.failed), "ctrf")
      ELSE Raised("JSONDecodeError")

(* lines 40-48: float(...) and the counts derived from it inside the try *)
load_reward(reward) ==
    IF reward.state = "ok"
      THEN Decoded(IntOfReward(reward.tenths), 1,
                   1 - IntOfReward(reward.tenths), "reward")
      ELSE Raised("ValueError")

(* try: ... except Exception: fall through to otherwise *)
TryElse(attempt, otherwise) ==
    IF ~attempt.raised THEN attempt
    ELSE IF Catches(attempt.exc) THEN otherwise
    ELSE attempt

(* lines 37-59: the reward.txt branch and the final return *)
parse_reward(reward) ==
    IF reward.state # "absent"
      THEN TryElse(load_reward(reward), Decoded(0, 0, 0, "none"))
      ELSE Decoded(0, 0, 0, "none")

(* the decoder written without the fall-through: a ctrf.json that does *)
(* not parse yields whatever counts can still be read from it          *)
parse_partial(ctrf, reward) ==
    IF ctrf.state # "absent"
      THEN Decoded(Get(ctrf.passed), Get(ctrf.tests), Get(ctrf.failed), "ctrf")
      ELSE parse_reward(reward)

(* parse_harbor_results(result_path) on a directory holding these files *)
parse_harbor_results(ctrf, reward) ==
    IF ctrf.state # "absent"
      THEN TryElse(load_ctrf(ctrf), parse_reward(reward))
      ELSE parse_reward(reward)

ZeroOutcome == Decoded(0, 0, 0, "none")

(* one call of the decoder on every directory content *)
DecodeInit ==
    /\ subPc = "idle"
    /\ n_runs = 0
    /\ subK = 0
    /\ session = [job |-> <<>>, runs |-> <<>>]
    /\ dispatched = <<>>
    /\ jobs = <<>>
    /\ runs = <<>>
    /\ queue = {}
    /\ storeUp = TRUE
    /\ wk = [w \in Workers |-> IdleWorker]
    /\ \E c \in CtrfFiles : \E r \in RewardFiles :
          ex = [pc |-> "decode", ctrf |-> c, reward |-> r,
                decoded |-> ZeroOutcome]

Decode ==
    /\ ex.pc = "decode"
    /\ ex' = [ex EXCEPT !.pc = "decoded",
                        !.decoded = parse_harbor_results(ex.ctrf, ex.reward)]
    /\ UNCHANGED <<subPc, n_runs, subK, session, dispatched, jobs, runs,
                   queue, storeUp, wk>>

DecodeSpec == DecodeInit /\ [][Decode]_vars

(* C20: the decoder uses exactly one source, in fixed priority: a        *)
(* ctrf.json that parses gives the result and reward.txt plays no part;  *)
(* a ctrf.json that does not parse gives what the reward file alone      *)
(* gives and none of its own counts; with neither source the result is   *)
(* all-zero; the decoder returns in every case.                          *)
C20_DecoderPriority ==
    ex.pc = "decoded" =>
      /\ ~ex.decoded.raised
      /\ ex.ctrf.state = "ok" =>
            /\ ex.decoded = parse_harbor_results(ex.ctrf, NoReward)
            /\ ex.decoded.format = "ctrf"
            /\ ex.decoded.passed = Get(ex.ctrf.passed)
            /\ ex.decoded.total = Get(ex.ctrf.tests)
            /\ ex.decoded.failed = Get(ex.ctrf.failed)
      /\ ex.ctrf.state = "malformed" =>
            /\ ex.decoded = parse_harbor_results(NoCtrf, ex.reward)
            /\ ex.decoded.format # "ctrf"
      /\ (ex.ctrf.state # "ok" /\ ex.reward.state # "ok") =>
            ex.decoded = ZeroOutcome

(* C20 witness: a damaged ctrf.json still showing 2 of 2 passed, next to *)
(* a reward file of 0.0, decoded from the reward file alone              *)
C20_Witness ==
    /\ ex.pc = "decoded"
    /\ ex.ctrf.state = "malformed"
    /\ ex.ctrf.passed = MaxTests /\ ex.ctrf.tests = MaxTests
    /\ ex.reward.state = "ok" /\ ex.reward.tenths = 0
    /\ ex.decoded = Decoded(0, 1, 1, "reward")

(* ------------------------------------------------------------------ *)
(* Text: a string as a sequence of pieces, each a run of characters of *)
(* one origin; cut marks a piece that slicing has shortened and off is *)
(* the number of characters of the piece dropped in front of it        *)
(* ------------------------------------------------------------------ *)

ShortLen == 5
LongLen == 60000

ErrorCap == 10000
LogCap == 50000
StderrCap == 2000

(* len(...) of the string literals of harbor_service.py *)
LiteralLen ==
    [AgentHeader |-> 31, ErrorsHeader |-> 24, MessagesHeader |-> 26,
     StderrTruncated |-> 53, MetricsNote |-> 101, LogsTruncatedFile |-> 57,
     LogsTruncated |-> 50, ErrorTruncated |-> 36, Default |-> 23,
     CliMissing |-> 116, TypeErrorText |-> 45, Newline |-> 1,
     DebugHeader |-> 37, DebugInfo |-> 80, StdoutHeader |-> 15,
     StderrHeader |-> 17, HandlerTruncated |-> 15,
     IndexError |-> 10, ListIndexOutOfRange |-> 23, SelfMetrics |-> 38]

Chunk(tag, len) == [tag |-> tag, len |-> len, cut |-> FALSE, off |-> 0]

Str(tag, len) == IF len = 0 THEN <<>> ELSE <<Chunk(tag, len)>>

Lit(name) == <<Chunk(name, LiteralLen[name])>>

RECURSIVE TLen(_)
(* len(t) *)
TLen(t) == IF t = <<>> THEN 0 ELSE Head(t).len + TLen(Tail(t))

RECURSIVE Prefix(_, _)
(* t[:n] *)
Prefix(t, n) ==
    IF t = <<>> \/ n = 0 THEN <<>>
    ELSE IF Head(t).len <= n
      THEN <<Head(t)>> \o Prefix(Tail(t), n - Head(t).len)
      ELSE <<[Head(t) EXCEPT !.len = n, !.cut = TRUE]>>

RECURSIVE Suffix(_, _)
(* t[-n:], n > 0 *)
Suffix(t, n) ==
    IF t = <<>> \/ n = 0 THEN <<>>
    ELSE LET last == t[Len(t)]
             front == SubSeq(t, 1, Len(t) - 1)
         IN IF last.len <= n
              THEN Suffix(front, n - last.len) \o <<last>>
              ELSE <<[last EXCEPT !.len = n, !.cut = TRUE,
                                  !.off = @ + (last.len - n)]>>

(* "literal" in t *)
Contains(t, tag) == \E k \in DOMAIN t : t[k].tag = tag /\ ~t[k].cut

(* ------------------------------------------------------------------ *)
(* Run Executor: HarborService.run_task                                *)
(* ------------------------------------------------------------------ *)

(* a str value and a tuple value, as the operations on them tell them *)
(* apart                                                               *)
PyStr(t) == [type |-> "str", text |-> t, items |-> <<>>]

PyTuple(items) == [type |-> "tuple", text |-> <<>>, items |-> items]

(* the truth value of v in "if v:" *)
Truthy(v) == IF v.type = "tuple" THEN Len(v.items) > 0 ELSE v.text # <<>>

(* read_harbor_logs(result_path): return combined_logs, episodes *)
read_harbor_logs(dir) == PyTuple(<<dir.logs, dir.episodes>>)

NoOutcome ==
    [status |-> "none", has_error |-> FALSE, error |-> <<>>,
     tests_passed |-> 0, tests_total |-> 0, logs |-> <<>>,
     log_file |-> FALSE, full_logs |-> <<>>]

(* the two ways a block ends *)
Returns(outcome) ==
    [raised |-> FALSE, cls |-> "none", msg |-> <<>>, outcome |-> outcome]

Raises(cls, msg) ==
    [raised |-> TRUE, cls |-> cls, msg |-> msg, outcome |-> NoOutcome]

(* the three substring tests on stderr_text *)
is_metrics_error(stderr_text) ==
    /\ Contains(stderr_text, "IndexError")
    /\ Contains(stderr_text, "ListIndexOutOfRange")
    /\ Contains(stderr_text, "SelfMetrics")

(* the choice written stdout first *)
error_text_stdout_first(stdout_text, stderr_text) ==
    IF stdout_text # <<>> THEN stdout_text
    ELSE IF stderr_text # <<>> THEN stderr_text
    ELSE Lit("Default")

(* stderr_text or stdout_text or "Harbor execution failed" *)
error_text(stdout_text, stderr_text) ==
    IF stderr_text # <<>> THEN stderr_text
    ELSE IF stdout_text # <<>> THEN stdout_text
    ELSE Lit("Default")

(* if len(error_msg) > 10000: marker + error_msg[-10000:] *)
bound_error(msg) ==
    IF TLen(msg) > ErrorCap
      THEN Lit("ErrorTruncated") \o Suffix(msg, ErrorCap)
      ELSE msg

(* the cut keeping the end of the text *)
cap_logs_tail(combined_logs, pointer) ==
    IF TLen(combined_logs) > LogCap
      THEN Lit(pointer) \o Suffix(combined_logs, LogCap)
      ELSE combined_logs

(* if len(combined_logs) > 50000: combined_logs[:50000] + pointer *)
cap_logs(combined_logs, pointer) ==
    IF TLen(combined_logs) > LogCap
      THEN Prefix(combined_logs, LogCap) \o Lit(pointer)
      ELSE combined_logs

(* stderr_text[:2000] and the marker that follows a cut *)
stderr_excerpt(stderr_text) ==
    Prefix(stderr_text, StderrCap) \o
    (IF TLen(stderr_text) > StderrCap THEN Lit("StderrTruncated") ELSE <<>>)

(* the end of the results branch and of the normal branch: the log file *)
(* written when the text is over the cap, then the returned dict        *)
finish(e, tr, combined_logs) ==
    IF TLen(combined_logs) > LogCap /\ e.fault = "io_log"
      THEN Raises("OSError", Str("oserror", ShortLen))
      ELSE Returns(
        [status |-> IF tr.passed > 0 THEN "completed" ELSE "failed",
         has_error |-> FALSE, error |-> <<>>,
         tests_passed |-> tr.passed, tests_total |-> tr.total,
         logs |-> cap_logs(combined_logs, "LogsTruncatedFile"),
         log_file |-> TLen(combined_logs) > LogCap,
         full_logs |-> combined_logs])

(* combined_logs += header + logs *)
add_logs(combined_logs, logs) ==
    IF logs.type = "str"
      THEN Returns([NoOutcome EXCEPT
                      !.logs = combined_logs \o Lit("AgentHeader") \o logs.text])
      ELSE Raises("TypeError", Lit("TypeErrorText"))

(* lines 193-237: results with total > 0 were found *)
results_branch(e, tr, logs) ==
    LET a == IF Truthy(logs) THEN add_logs(e.stdout, logs)
             ELSE Returns([NoOutcome EXCEPT !.logs = e.stdout])
        m == is_metrics_error(e.stderr)
        c1 == a.outcome.logs
        c2 == IF e.stderr # <<>> /\ ~m
                THEN c1 \o Lit("ErrorsHeader") \o stderr_excerpt(e.stderr)
                ELSE c1
        c3 == IF e.returncode # 0 /\ m THEN c2 \o Lit("MetricsNote") ELSE c2
    IN IF a.raised THEN a ELSE finish(e, tr, c3)

(* lines 239-259: no such results and a non-zero exit *)
failure_branch(e) ==
    LET combined_logs == e.stdout \o Lit("Newline") \o e.stderr
    IN Returns(
         [status |-> "failed",
          has_error |-> TRUE,
          error |-> bound_error(error_text(e.stdout, e.stderr)),
          tests_passed |-> 0, tests_total |-> 0,
          logs |-> cap_logs(combined_logs, "LogsTruncated"),
          log_file |-> FALSE,
          full_logs |-> combined_logs])

(* lines 261-301: exit status 0 *)
normal_branch(e) ==
    LET tr == IF e.dir.found
                THEN parse_harbor_results(e.dir.ctrf, e.dir.reward)
                ELSE Decoded(0, 0, 0, "none")
        logs == IF e.dir.found THEN read_harbor_logs(e.dir) ELSE PyStr(<<>>)
        a == IF Truthy(logs) THEN add_logs(e.stdout, logs)
             ELSE Returns([NoOutcome EXCEPT !.logs = e.stdout])
        c1 == a.outcome.logs
        c2 == IF e.stderr # <<>>
                THEN c1 \o Lit("MessagesHeader") \o stderr_excerpt(e.stderr)
                ELSE c1
    IN IF tr.raised THEN Raises(tr.exc, Str("decode", ShortLen))
       ELSE IF a.raised THEN a
       ELSE finish(e, tr, c2)

(* lines 185-301: everything after the result directory lookup *)
classify(e) ==
    LET tr == IF e.dir.found
                THEN parse_harbor_results(e.dir.ctrf, e.dir.reward)
                ELSE Decoded(0, 0, 0, "none")
    IN IF tr.raised THEN Raises(tr.exc, Str("decode", ShortLen))
       ELSE IF e.dir.found /\ tr.total > 0
         THEN results_branch(e, tr, read_harbor_logs(e.dir))
       ELSE IF e.returncode # 0 THEN failure_branch(e)
       ELSE normal_branch(e)

(* lines 321-334: the dict returned by the handler *)
failed_outcome(msg) ==
    [status |-> "failed", has_error |-> TRUE, error |-> bound_error(msg),
     tests_passed |-> 0, tests_total |-> 0, logs |-> bound_error(msg),
     log_file |-> FALSE, full_logs |-> bound_error(msg)]

(* a config asking the harness to retry a failed trial once *)
HarborConfigRetrying == [n_attempts |-> 1, max_retries |-> 1]

(* lines 44-66: the attempt count and the retry limit of the config *)
HarborConfig == [n_attempts |-> 1, max_retries |-> 0]

(* the trials one harbor process can make under a config: each attempt, *)
(* retried any number of times up to the limit                          *)
TrialCounts(config) ==
    {config.n_attempts * (1 + retried) : retried \in 0..config.max_retries}

(* lines 160-171: what harbor_error_<n>.txt is written with *)
error_log_content(stdout_text, stderr_text) ==
    Lit("DebugHeader") \o Lit("DebugInfo") \o Lit("StdoutHeader") \o
    stdout_text \o Lit("StderrHeader") \o stderr_text \o Lit("Newline")

(* what the harness process can write on its two streams *)
Stdouts == {<<>>, Str("stdout", ShortLen), Str("stdout", LongLen)}

MetricsTraceback ==
    Str("traceback", ShortLen) \o Lit("IndexError") \o
    Lit("ListIndexOutOfRange") \o Lit("SelfMetrics")

Stderrs ==
    {<<>>, MetricsTraceback, Str("stderr", ShortLen),
     Str("stderr", ShortLen) \o Lit("IndexError"), Str("stderr", LongLen)}

(* what the result directory lookup can come back with: nothing, or a *)
(* trial directory in any state of its result files and agent logs     *)
NoDir ==
    [found |-> FALSE, ctrf |-> NoCtrf, reward |-> NoReward, logs |-> <<>>,
     episodes |-> <<>>]

ExecCtrfFiles ==
    {c \in CtrfFiles : c.state = "absent" \/
                       (c.failed = Missing /\ c.passed # Missing /\
                        c.tests # Missing)}

ExecRewardFiles == {r \in RewardFiles : r.state = "ok" => r.tenths \in {0, 10}}

ResultDirs ==
    {NoDir} \cup
    [found : {TRUE}, ctrf : ExecCtrfFiles, reward : ExecRewardFiles,
     logs : {<<>>, Str("agent", ShortLen)}, episodes : {<<>>}]

(* what can go wrong around the process: nothing; the harbor binary is  *)
(* not on the path; a directory or file cannot be written before the    *)
(* process starts (with a short or a long message); the log file cannot *)
(* be written                                                           *)
Faults == {"none", "cli_missing", "io_pre", "io_pre_long", "io_log"}

ExecInit ==
    /\ subPc = "idle"
    /\ n_runs = 0
    /\ subK = 0
    /\ session = [job |-> <<>>, runs |-> <<>>]
    /\ dispatched = <<>>
    /\ jobs = <<>>
    /\ runs = <<>>
    /\ queue = {}
    /\ storeUp = TRUE
    /\ wk = [w \in Workers |-> IdleWorker]
    /\ \E rc \in {0, 1} : \E out \in Stdouts : \E err \in Stderrs :
       \E d \in ResultDirs : \E f \in Faults :
          ex = [pc |-> "start", returncode |-> rc, stdout |-> out,
                stderr |-> err, dir |-> d, fault |-> f,
                exc |-> Returns(NoOutcome), outcome |-> NoOutcome,
                spawned |-> 0, trials |-> 0, files |-> <<>>]

(* lines 35-172: directories, config file, the harbor process, the debug *)
(* file                                                                  *)
Launch ==
    /\ ex.pc = "start"
    /\ \E trials \in TrialCounts(HarborConfig) :
       ex' = IF ex.fault = "cli_missing"
               THEN [ex EXCEPT !.pc = "except", !.spawned = @ + 1,
                               !.exc = Raises("Exception", Lit("CliMissing"))]
             ELSE IF ex.fault = "io_pre"
               THEN [ex EXCEPT !.pc = "except",
                               !.exc = Raises("OSError", Str("oserror", ShortLen))]
             ELSE IF ex.fault = "io_pre_long"
               THEN [ex EXCEPT !.pc = "except",
                               !.exc = Raises("OSError", Str("oserror", LongLen))]
             ELSE [ex EXCEPT !.pc = "exited", !.spawned = @ + 1,
                             !.trials = @ + trials,
                             !.files = ("harbor_error" :>
                                          error_log_content(ex.stdout, ex.stderr))
                                       @@ @]
    /\ UNCHANGED <<subPc, n_runs, subK, session, dispatched, jobs, runs,
                   queue, storeUp, wk>>

(* lines 174-301: result lookup, decoding, log assembly, return *)
Classify ==
    /\ ex.pc = "exited"
    /\ LET b == classify(ex)
       IN ex' = IF b.raised
                  THEN [ex EXCEPT !.pc = "except", !.exc = b]
                  ELSE [ex EXCEPT !.pc = "returned", !.outcome = b.outcome,
                                  !.files = IF b.outcome.log_file
                                              THEN ("harbor_logs" :>
                                                      b.outcome.full_logs) @@ @
                                              ELSE @]
    /\ UNCHANGED <<subPc, n_runs, subK, session, dispatched, jobs, runs,
                   queue, storeUp, wk>>

(* lines 303-334: except Exception as e *)
HandleException ==
    /\ ex.pc = "except"
    /\ ex' = IF Catches(ex.exc.cls)
               THEN [ex EXCEPT !.pc = "returned",
                               !.outcome = failed_outcome(ex.exc.msg)]
               ELSE [ex EXCEPT !.pc = "raised"]
    /\ UNCHANGED <<subPc, n_runs, subK, session, dispatched, jobs, runs,
                   queue, storeUp, wk>>

ExecNext == Launch \/ Classify \/ HandleException

ExecSpec == ExecInit /\ [][ExecNext]_vars

(* the harness process ran to its exit *)
Exited == ex.fault \notin {"cli_missing", "io_pre", "io_pre_long"}

(* what the decoder makes of the result directory of this call *)
DecodedHere ==
    IF ex.dir.found THEN parse_harbor_results(ex.dir.ctrf, ex.dir.reward)
    ELSE ZeroOutcome

(* C16: whenever the result directory decodes to total > 0, whatever the *)
(* exit status and the passed count, the returned outcome is classified  *)
(* completed.                                                            *)
C16_TotalPositiveIsCompleted ==
    (ex.pc = "returned" /\ ex.fault = "none" /\ DecodedHere.total > 0)
      => ex.outcome.status = "completed"

(* C17: a non-zero exit whose stderr shows the metrics defect, with      *)
(* results of total > 0 found, returns an outcome without an error and   *)
(* with the explanatory note in its logs.                                *)
C17_MetricsDefectIsNote ==
    (ex.pc = "returned" /\ ex.fault = "none" /\ ex.returncode # 0 /\
     is_metrics_error(ex.stderr) /\ DecodedHere.total > 0)
      => /\ ~ex.outcome.has_error
         /\ Contains(ex.outcome.logs, "MetricsNote")

(* C18: a non-zero exit with no results of total > 0, the call not being *)
(* cut short by an exception, returns a failed outcome with passed = 0,  *)
(* total = 0 and as error the stderr text, else the stdout text, else    *)
(* the default message (its last 10,000 characters after the marker when *)
(* it is longer).                                                        *)
C18_NoResultsNonZeroExit ==
    (ex.pc = "returned" /\ Exited /\ ex.returncode # 0 /\
     ~(DecodedHere.total > 0))
      => /\ ex.outcome.status = "failed"
         /\ ex.outcome.tests_passed = 0
         /\ ex.outcome.tests_total = 0
         /\ ex.outcome.has_error
         /\ LET diag == IF ex.stderr # <<>> THEN ex.stderr
                        ELSE IF ex.stdout # <<>> THEN ex.stdout
                        ELSE Lit("Default")
            IN IF TLen(diag) <= ErrorCap
                 THEN ex.outcome.error = diag
                 ELSE ex.outcome.error =
                        Lit("ErrorTruncated") \o Suffix(diag, ErrorCap)

(* C18 witness: exit status 1, a result directory whose files decode to *)
(* total 0, both streams written: the error is the stderr text          *)
C18_Witness ==
    /\ ex.pc = "returned"
    /\ ex.returncode = 1
    /\ ex.dir.found /\ DecodedHere.total = 0
    /\ ex.stdout # <<>> /\ ex.stderr = Str("stderr", ShortLen)
    /\ ex.outcome.status = "failed"
    /\ ex.outcome.error = ex.stderr

(* C19: run_task never raises: every exception raised inside it ends in *)
(* a returned outcome with status failed, passed = 0, total = 0 and an   *)
(* error of at most 10,000 characters plus the marker.                   *)
C19_NeverRaises ==
    /\ ex.pc # "raised"
    /\ (ex.pc = "returned" /\ ex.exc.raised)
         => /\ ex.outcome.status = "failed"
            /\ ex.outcome.tests_passed = 0
            /\ ex.outcome.tests_total = 0
            /\ ex.outcome.has_error
            /\ TLen(ex.outcome.error) <= ErrorCap + LiteralLen.ErrorTruncated

(* C19 witness: the TypeError raised while the logs are assembled has *)
(* been turned into a failed outcome                                   *)
C19_Witness ==
    /\ ex.pc = "returned"
    /\ ex.exc.raised /\ ex.exc.cls = "TypeError"
    /\ ex.outcome.status = "failed"
    /\ ex.outcome.error = Lit("TypeErrorText")

(* ------------------------------------------------------------------ *)
(* Decoder result mapping                                              *)
(* ------------------------------------------------------------------ *)

(* a ctrf.json that parses and whose summary holds the three counts *)
FullSummary ==
    /\ ex.ctrf.state = "ok"
    /\ ex.ctrf.passed # Missing /\ ex.ctrf.tests # Missing
    /\ ex.ctrf.failed # Missing

(* the three cases of the mapping, with the format label of the first *)
DecoderMapping(label) ==
    ex.pc = "decoded" =>
      /\ FullSummary =>
           /\ ex.decoded.total = ex.ctrf.tests
           /\ ex.decoded.passed = ex.ctrf.passed
           /\ ex.decoded.failed = ex.ctrf.failed
           /\ ex.decoded.format = label
      /\ (ex.ctrf.state = "absent" /\ ex.reward.state = "ok" /\
          ex.reward.tenths = 10) =>
           /\ ex.decoded.total = 1 /\ ex.decoded.passed = 1
           /\ ex.decoded.failed = 0 /\ ex.decoded.format = "reward"
      /\ (ex.ctrf.state = "absent" /\ ex.reward.state = "absent") =>
           /\ ex.decoded.total = 0 /\ ex.decoded.passed = 0
           /\ ex.decoded.failed = 0 /\ ex.decoded.format = "none"

RoundOfReward(tenths) == IF tenths > 5 THEN 1 ELSE 0

(* C22: a reward r in [0,1] read from the reward file decodes to        *)
(* total = 1, passed = round(r), failed = 1 - passed.                    *)
C22_RewardRounded ==
    (ex.pc = "decoded" /\ ex.ctrf.state = "absent" /\ ex.reward.state = "ok")
      => /\ ex.decoded.total = 1
         /\ ex.decoded.passed = RoundOfReward(ex.reward.tenths)
         /\ ex.decoded.failed = 1 - ex.decoded.passed

(* ------------------------------------------------------------------ *)
(* Submission errors, reconcile containment, Job frame                 *)
(* ------------------------------------------------------------------ *)

(* C24: a submission whose run count is below 1 or above 100 is rejected *)
(* and leaves no Job row, no Run row, no pending session object and no   *)
(* work item.                                                            *)
C24_InvalidCountRejected ==
    (subPc # "idle" /\ (n_runs < 1 \/ n_runs > 100))
      => /\ subPc = "rejected"
         /\ jobs = <<>> /\ runs = <<>>
         /\ session = [job |-> <<>>, runs |-> <<>>]
         /\ queue = {} /\ dispatched = <<>>
         /\ \A w \in Workers : ~Active(w)

(* C24 witness: a submission asking for 101 Runs has been rejected *)
C24_Witness == subPc = "rejected" /\ n_runs = MaxNRuns + 1

(* C25: when enqueueing fails after some of the N work items were        *)
(* enqueued, the Job and all N Runs are stored, Pending on failure, each *)
(* Run belonging to the Job, and every work item handed to the broker    *)
(* names a stored Run.                                                   *)
C25_PartialDispatchKeepsState ==
    (subPc = "error" /\ 0 < subK /\ subK < n_runs)
      => /\ Cardinality(DOMAIN jobs) = 1
         /\ Cardinality(DOMAIN runs) = n_runs
         /\ \A r \in DOMAIN runs : runs[r].job_id \in DOMAIN jobs
         /\ Range(dispatched) \subseteq DOMAIN runs
         /\ \A item \in queue : item.run_id \in DOMAIN runs

RecPcs == {"rec_select", "rec_get_job", "rec_commit"}

(* C26: every step of the reconcile loop stays in the loop or ends the   *)
(* task normally: it never enters the failure handler, never changes a   *)
(* Run row, never adds a work item; the loop makes at most 3 iterations  *)
(* and a store error in the third ends the task.                         *)
C26_ReconcileBoundedContained ==
    [][\A w \in Workers :
         (wk[w].pc \in RecPcs /\ wk'[w] # wk[w])
           => /\ wk'[w].pc \in RecPcs \cup {"idle"}
              /\ runs' = runs
              /\ queue' = queue
              /\ wk[w].attempt < 3
              /\ wk'[w].pc \in RecPcs => wk'[w].attempt < 3
              /\ (~storeUp /\ wk[w].attempt = 2) => wk'[w] = IdleWorker]_vars

(* C26 witness: a worker whose Run is stored terminal is in the third   *)
(* iteration of the loop with the store not answering                    *)
C26_Witness ==
    \E w \in Workers :
        /\ wk[w].pc \in RecPcs
        /\ wk[w].attempt = 2
        /\ ~storeUp
        /\ wk[w].task.run_id \in DOMAIN runs
        /\ runs[wk[w].task.run_id].status \in Terminal

(* C29 as amended: after creation a Job row is changed only by the       *)
(* Pending-to-Running write at the start of an attempt, which changes    *)
(* the status alone, and by the reconcile write; marking the Run         *)
(* Running, persisting an outcome and the failure handler leave it       *)
(* unchanged.                                                            *)
C29_JobFrame ==
    [][\A j \in DOMAIN jobs :
         (j \in DOMAIN jobs' /\ jobs'[j] # jobs[j])
           => \E w \in Workers :
                /\ wk'[w] # wk[w]
                /\ wk[w].task.job_id = j
                /\ \/ wk[w].pc = "rec_commit"
                   \/ /\ wk[w].pc = "job_commit"
                      /\ jobs'[j] = [jobs[j] EXCEPT !.status = RUNNING]]_vars

(* C29 as stated: after creation a Job row is changed only by the *)
(* reconcile write                                                 *)
C29_OnlyReconcileWritesJob ==
    [][\A j \in DOMAIN jobs :
         (j \in DOMAIN jobs' /\ jobs'[j] # jobs[j])
           => \E w \in Workers :
                wk'[w] # wk[w] /\ wk[w].pc = "rec_commit"]_vars

(* C29 witness: one Run of the Job has failed in the handler and another *)
(* has had its outcome persisted, and the Job row holds what the start   *)
(* of an attempt wrote                                                   *)
C29_Witness ==
    \E j \in DOMAIN jobs :
        /\ jobs[j] = [NewJob(j) EXCEPT !.status = RUNNING]
        /\ \E w1, w2 \in Workers :
              /\ wk[w1].pc = "retry_or_raise" /\ wk[w1].task.job_id = j
              /\ wk[w2].pc = "rec_select" /\ wk[w2].task.job_id = j
              /\ runs[wk[w1].task.run_id].status = FAILED
              /\ runs[wk[w2].task.run_id].status \in Terminal

(* ------------------------------------------------------------------ *)
(* Log cap, harness invocations                                        *)
(* ------------------------------------------------------------------ *)

(* every piece of text t is in the file content, whole *)
Holds(content, t) ==
    \A k \in DOMAIN t : \E i \in DOMAIN content : content[i] = t[k]

LogPointers == {"LogsTruncatedFile", "LogsTruncated"}

(* C28: on every return of run_task whose assembled log text is longer   *)
(* than 50,000 characters, the returned logs are the first 50,000        *)
(* characters followed by a pointer, and a file written by the call      *)
(* holds the whole text; the returned logs are never longer than 50,000  *)
(* characters plus the pointer.                                          *)
C28_LogsCappedAndFiled ==
    ex.pc = "returned" =>
      /\ TLen(ex.outcome.logs) <= 50000 + LiteralLen.LogsTruncatedFile
      /\ TLen(ex.outcome.full_logs) > 50000 =>
           /\ \E p \in LogPointers :
                ex.outcome.logs =
                  Prefix(ex.outcome.full_logs, 50000) \o Lit(p)
           /\ \E f \in DOMAIN ex.files :
                Holds(ex.files[f], ex.outcome.full_logs)

(* C28 witness: exit status 0 without a result directory and 60,000     *)
(* characters of stdout: harbor_logs_<n>.txt is written and the logs are *)
(* cut                                                                   *)
C28_Witness ==
    /\ ex.pc = "returned"
    /\ ~ex.exc.raised
    /\ ex.returncode = 0
    /\ TLen(ex.outcome.full_logs) > LogCap
    /\ "harbor_logs" \in DOMAIN ex.files
    /\ TLen(ex.outcome.logs) = LogCap + LiteralLen.LogsTruncatedFile

(* the call reached create_subprocess_exec *)
ReachedLaunch == ex.fault \notin {"io_pre", "io_pre_long"}

(* C30 as amended: one call of run_task starts the harness at most once; *)
(* when the call gets as far as the launch it starts it exactly once,    *)
(* and a harness that started makes exactly one trial, whatever the      *)
(* exit status and the results.                                          *)
C30_AtMostOneInvocation ==
    /\ ex.spawned <= 1
    /\ ex.trials <= 1
    /\ ex.pc = "returned" =>
         /\ ReachedLaunch => ex.spawned = 1
         /\ Exited => ex.trials = 1

(* C30 as stated: every call of run_task that has returned has started *)
(* the harness exactly once                                             *)
C30_ExactlyOneInvocation ==
    ex.pc = "returned" => ex.spawned = 1

(* C30 witness: the harness ran once, exited with status 1 and left no *)
(* result directory                                                     *)
C30_Witness ==
    /\ ex.pc = "returned"
    /\ ex.returncode = 1 /\ ~ex.dir.found
    /\ ex.spawned = 1 /\ ex.trials = 1

(* ------------------------------------------------------------------ *)
(* The store boundary: what run_harbor_task writes on a Run row        *)
(* ------------------------------------------------------------------ *)

(* a NULL error column and an error column holding text *)
NoError == [null |-> TRUE, text |-> <<>>]

ErrorText(t) == [null |-> FALSE, text |-> t]

(* a Run row with the columns the task writes besides the status and the *)
(* timestamps; Missing stands for NULL in the two count columns           *)
FullRun(id, job_id, i) ==
    [id |-> id, job_id |-> job_id, run_number |-> i, status |-> PENDING,
     started_at |-> NoTime, completed_at |-> NoTime,
     tests_passed |-> Missing, tests_total |-> Missing,
     logs |-> <<>>, error |-> NoError]

(* the dicts the return statements of run_task build: lines 227-237 and  *)
(* 291-301 from any decoded counts and assembled logs, lines 251-259     *)
(* from any process output, lines 326-334 from any exception message     *)
ReturnedOutcomes ==
    {finish([fault |-> "none"], Decoded(p, t, 0, "ctrf"), l).outcome :
        p \in 0..MaxTests, t \in 0..MaxTests, l \in Stdouts}
    \cup {failure_branch([stdout |-> o, stderr |-> e]).outcome :
            o \in Stdouts, e \in Stderrs}
    \cup {failed_outcome(Str("exception", n)) : n \in {ShortLen, LongLen}}

(* the exceptions that reach the handler of run_harbor_task *)
HandlerExceptions ==
    [cls : HarnessExceptions \cup {StoreError},
     msg : {Str("exception", ShortLen), Str("exception", LongLen)}]

(* lines 142-146: str(exc), cut when longer than 10000 *)
handler_error(msg) ==
    IF TLen(msg) > ErrorCap
      THEN Prefix(msg, ErrorCap) \o Lit("HandlerTruncated")
      ELSE msg

(* Run 2 of Job 1 in its first attempt or in a retry after a recorded *)
(* failure, the task either holding the outcome run_task returned or   *)
(* having caught an exception                                          *)
StoreInit ==
    /\ subPc = "done"
    /\ n_runs = 1
    /\ subK = 1
    /\ session = [job |-> <<>>, runs |-> <<>>]
    /\ dispatched = <<2>>
    /\ jobs = [id \in {1} |-> [NewJob(1) EXCEPT !.status = RUNNING]]
    /\ queue = {}
    /\ storeUp = TRUE
    /\ wk = [w \in Workers |-> IdleWorker]
    /\ \E earlier \in {NoError, ErrorText(Str("earlier", ShortLen))} :
       \E retries \in {0, 1} :
         /\ (retries = 0) = earlier.null
         /\ runs = [id \in {2} |->
                      [FullRun(2, 1, 1) EXCEPT
                         !.status = RUNNING,
                         !.started_at = utcnow([WorkItem(1, 2, 1) EXCEPT
                                                  !.retries = retries]),
                         !.error = earlier]]
         /\ \/ \E o \in ReturnedOutcomes :
                 ex = [pc |-> "persist", outcome |-> o,
                       exc |-> [cls |-> "none", msg |-> <<>>],
                       task |-> [WorkItem(1, 2, 1) EXCEPT !.retries = retries]]
            \/ \E e \in HandlerExceptions :
                 ex = [pc |-> "except", outcome |-> NoOutcome, exc |-> e,
                       task |-> [WorkItem(1, 2, 1) EXCEPT !.retries = retries]]

(* result.get("error"): None when the dict has no such key *)
result_error(result) ==
    IF result.has_error THEN ErrorText(result.error) ELSE NoError

(* the call written to pass error only when the outcome has one *)
persist_kwargs_error_if_any(result, now) ==
    IF result.has_error
      THEN [tests_passed |-> result.tests_passed,
            tests_total |-> result.tests_total,
            logs |-> result.logs,
            error |-> ErrorText(result.error),
            completed_at |-> now]
      ELSE [tests_passed |-> result.tests_passed,
            tests_total |-> result.tests_total,
            logs |-> result.logs,
            completed_at |-> now]

(* lines 95-100: the keyword arguments of the persist call *)
persist_kwargs(result, now) ==
    [tests_passed |-> result.tests_passed,
     tests_total |-> result.tests_total,
     logs |-> result.logs,
     error |-> result_error(result),
     completed_at |-> now]

(* line 94 *)
persist_status(result) ==
    IF result.status = "completed" THEN COMPLETED ELSE FAILED

(* lines 92-101: update_run_status with the fields of the outcome; a   *)
(* store error raised by it reaches the handler of the task            *)
PersistOutcome ==
    /\ ex.pc = "persist"
    /\ IF storeUp
         THEN /\ runs' = update_run_status(runs, ex.task.run_id,
                            persist_status(ex.outcome),
                            persist_kwargs(ex.outcome, utcnow(ex.task)))
              /\ ex' = [ex EXCEPT !.pc = "persisted"]
         ELSE /\ UNCHANGED runs
              /\ \E m \in {Str("exception", ShortLen),
                            Str("exception", LongLen)} :
                    ex' = [ex EXCEPT !.pc = "except",
                                     !.exc = [cls |-> StoreError, msg |-> m]]
    /\ UNCHANGED <<subPc, n_runs, subK, session, dispatched, jobs, queue,
                   storeUp, wk>>

(* lines 140-156: update_run_status(FAILED, error=error_msg, ...); a   *)
(* store error raised by it is printed and ignored                      *)
RecordError ==
    /\ ex.pc = "except"
    /\ IF storeUp
         THEN /\ runs' = update_run_status(runs, ex.task.run_id, FAILED,
                            [error |-> ErrorText(handler_error(ex.exc.msg)),
                             completed_at |-> utcnow(ex.task)])
              /\ ex' = [ex EXCEPT !.pc = "recorded"]
         ELSE /\ UNCHANGED runs
              /\ ex' = [ex EXCEPT !.pc = "unrecorded"]
    /\ UNCHANGED <<subPc, n_runs, subK, session, dispatched, jobs, queue,
                   storeUp, wk>>

StoreNext == PersistOutcome \/ RecordError \/ StoreFails \/ StoreRecovers

StoreSpec == StoreInit /\ [][StoreNext]_vars

HasStretch(t, s) ==
    \E k \in 0..(Len(t) - Len(s)) : SubSeq(t, k + 1, k + Len(s)) = s

(* C27: the error stored on a Run is bounded, and when the text of the   *)
(* exception the handler caught is longer than 10,000 characters the     *)
(* stored error holds its last 10,000 characters.                        *)
C27_ErrorKeepsLastChars ==
    /\ \A r \in DOMAIN runs :
          TLen(runs[r].error.text) <= ErrorCap + LiteralLen.ErrorTruncated
    /\ (ex.pc = "recorded" /\ TLen(ex.exc.msg) > ErrorCap)
         => HasStretch(runs[ex.task.run_id].error.text,
                       Suffix(ex.exc.msg, ErrorCap))

(* ------------------------------------------------------------------ *)
(* Two committed Jobs processed by the worker pool                     *)
(* ------------------------------------------------------------------ *)

(* the state after two submissions have committed and enqueued: Job 1  *)
(* with Runs 3 and 4, Job 2 with Run 5; the store stays reachable       *)
TwoJobsInit ==
    /\ subPc = "done"
    /\ n_runs = 1
    /\ subK = 1
    /\ session = [job |-> <<>>, runs |-> <<>>]
    /\ dispatched = <<3, 4, 5>>
    /\ jobs = [id \in {1, 2} |-> NewJob(id)]
    /\ runs = (3 :> NewRun(3, 1, 1)) @@ (4 :> NewRun(4, 1, 2))
                 @@ (5 :> NewRun(5, 2, 1))
    /\ queue = {WorkItem(1, 3, 1), WorkItem(1, 4, 2), WorkItem(2, 5, 1)}
    /\ storeUp = TRUE
    /\ wk = [w \in Workers |-> IdleWorker]
    /\ ex = NoExec

TwoJobsNext ==
    \/ \E w \in Workers : Receive(w)
    \/ \E w \in Workers : MarkRunning(w)
    \/ \E w \in Workers : JobGet(w)
    \/ \E w \in Workers : JobCommit(w)
    \/ \E w \in Workers : Harness(w)
    \/ \E w \in Workers : Persist(w)
    \/ \E w \in Workers : ReconcileSelectRuns(w)
    \/ \E w \in Workers : ReconcileGetJob(w)
    \/ \E w \in Workers : ReconcileCommit(w)
    \/ \E w \in Workers : RecordFailure(w)
    \/ \E w \in Workers : RetryOrRaise(w)

TwoJobsSpec == TwoJobsInit /\ [][TwoJobsNext]_vars

(* the positions of run_harbor_task at which a Run row, a Job row is   *)
(* written                                                              *)
RunWritePcs == {"mark_running", "persist", "except"}

JobWritePcs == {"job_commit", "rec_commit"}

(* C31: every store write of a worker processing Run r of Job j touches *)
(* only the row of Run r and the row of Job j: in every step of a       *)
(* worker, every Run row that changes is the row of the Run the worker  *)
(* holds, every Job row that changes is the row of the Job it holds,    *)
(* all other rows are as they were, and no row is created or deleted.   *)
C31_WorkerWritesScoped ==
    [][\A w \in Workers :
          wk'[w] # wk[w] =>
            /\ DOMAIN runs' = DOMAIN runs
            /\ DOMAIN jobs' = DOMAIN jobs
            /\ \A r \in DOMAIN runs :
                  runs'[r] # runs[r]
                    => r = wk[w].task.run_id /\ wk[w].pc \in RunWritePcs
            /\ \A j \in DOMAIN jobs :
                  jobs'[j] # jobs[j]
                    => j = wk[w].task.job_id /\ wk[w].pc \in JobWritePcs]_vars

(* C31 witness: a worker has written a terminal status on a Run of Job 1 *)
(* while a sibling Run and the Run of the other Job are each held by no   *)
(* worker and still as the submission created them                        *)
C31_Witness ==
    \E r \in DOMAIN runs :
        /\ runs[r].status \in Terminal
        /\ \E s \in DOMAIN runs :
              /\ s # r /\ runs[s].job_id = runs[r].job_id
              /\ runs[s].status = PENDING
        /\ \E o \in DOMAIN runs :
              runs[o].job_id # runs[r].job_id /\ runs[o].status = PENDING
        /\ Cardinality(DOMAIN jobs) = 2

(* ------------------------------------------------------------------ *)
(* Job and Run rows across retries                                     *)
(* ------------------------------------------------------------------ *)

(* C32: in every reachable state, also after retries of a Run that was *)
(* Failed, a Job that is Completed has only Completed or Failed Runs.  *)
C32_CompletedJobRunsTerminal ==
    \A j \in DOMAIN jobs :
        jobs[j].status = COMPLETED
          => \A r \in RunsOf(j) : runs[r].status \in Terminal

(* ------------------------------------------------------------------ *)
(* The result-directory lookup in the output directory of one Job      *)
(* ------------------------------------------------------------------ *)

(* the run numbers of the Runs executed here, and the number of retry  *)
(* attempts of each                                                     *)
LookupRuns == {1, 2, 10}
LookupRetries == 1

(* str(n) as its decimal digits *)
RECURSIVE Digits(_)
Digits(n) == IF n < 10 THEN <<n>> ELSE Append(Digits(n \div 10), n % 10)

(* <job_dir>/task, made by create_job_and_queue_runs *)
TaskDir == [kind |-> "task", run |-> 0, attempt |-> 0]

(* <job_dir>/job_run_<run_number>_<job_suffix>, made by the harness    *)
(* started by attempt a of the Run numbered k: job_suffix is a fresh    *)
(* token of 8 hex digits per call                                       *)
JobDir(k, a) == [kind |-> "job", run |-> k, attempt |-> a]

(* job_name in item.name, for job_name = "job_run_<run_number>": the    *)
(* text occurs in "job_run_<n>_<hex>" exactly when the digits of        *)
(* run_number begin the digits of n, and does not occur in "task"       *)
name_matches(run_number, d) ==
    /\ d.kind = "job"
    /\ Len(Digits(run_number)) <= Len(Digits(d.run))
    /\ SubSeq(Digits(d.run), 1, Len(Digits(run_number))) = Digits(run_number)

NoPath == [kind |-> "none", run |-> 0, attempt |-> 0]

(* _find_result_path(output_dir, "job_run_<run_number>") followed by    *)
(* the fallback of run_task, as the set of directories the call can     *)
(* select: iterdir() yields the entries in an order the file system     *)
(* chooses, so the first matching entry is any matching entry; no       *)
(* top-level entry holds a trial.log, so without a match the lookup     *)
(* returns None and run_task takes the directory modified last.  dirs   *)
(* lists the directories of output_dir in order of modification.        *)
find_result_path(dirs, run_number) ==
    LET matching == {d \in Range(dirs) : name_matches(run_number, d)}
    IN IF matching # {} THEN matching
       ELSE IF Len(dirs) > 0 THEN {dirs[Len(dirs)]}
       ELSE {NoPath}

(* the output directory of a Job after the submission, no Run executed *)
LookupInit ==
    /\ subPc = "done"
    /\ n_runs = 0
    /\ subK = 0
    /\ session = [job |-> <<>>, runs |-> <<>>]
    /\ dispatched = <<>>
    /\ jobs = <<>>
    /\ runs = <<>>
    /\ queue = {}
    /\ storeUp = TRUE
    /\ wk = [w \in Workers |-> IdleWorker]
    /\ ex = [pc |-> "output_dir", dirs |-> <<TaskDir>>, exited |-> {},
             found |-> {}]

Attempted(k, a) ==
    \/ <<k, a>> \in ex.exited
    \/ \E f \in ex.found : f.run = k /\ f.attempt = a

(* the harness started by attempt a of Run k has exited: it has made    *)
(* its job directory, or failed before making one.  A retry starts      *)
(* after the attempt before it has ended.                               *)
HarnessExit(k, a, made) ==
    /\ ex.pc = "output_dir"
    /\ ~Attempted(k, a)
    /\ a > 0 => \E f \in ex.found : f.run = k /\ f.attempt = a - 1
    /\ ex' = [ex EXCEPT
                !.dirs = IF made THEN Append(@, JobDir(k, a)) ELSE @,
                !.exited = @ \cup {<<k, a>>}]
    /\ UNCHANGED <<subPc, n_runs, subK, session, dispatched, jobs, runs,
                   queue, storeUp, wk>>

(* lines 177-183 of attempt a of Run k *)
FindResult(k, a) ==
    /\ ex.pc = "output_dir"
    /\ <<k, a>> \in ex.exited
    /\ \E d \in find_result_path(ex.dirs, k) :
          ex' = [ex EXCEPT
                   !.exited = @ \ {<<k, a>>},
                   !.found = @ \cup {[run |-> k, attempt |-> a,
                                      result_path |-> d]}]
    /\ UNCHANGED <<subPc, n_runs, subK, session, dispatched, jobs, runs,
                   queue, storeUp, wk>>

LookupNext ==
    \/ \E k \in LookupRuns : \E a \in 0..LookupRetries :
          \E made \in BOOLEAN : HarnessExit(k, a, made)
    \/ \E k \in LookupRuns : \E a \in 0..LookupRetries : FindResult(k, a)

LookupSpec == LookupInit /\ [][LookupNext]_vars

(* C33: the directory the lookup of an execution attempt selects is    *)
(* the one the harness of that same attempt made: never a directory of *)
(* another Run or of an earlier attempt of the same Run.               *)
C33_LookupSelectsOwnDirectory ==
    ex.pc = "output_dir" =>
      \A f \in ex.found :
          f.result_path.kind = "job"
            => f.result_path = JobDir(f.run, f.attempt)

(* ------------------------------------------------------------------ *)
(* Progress of a dispatched Run                                        *)
(* ------------------------------------------------------------------ *)

(* the state after a submission of one Run has committed: Job 1 with   *)
(* Run 2, its work item in the queue                                    *)
LiveInit ==
    /\ subPc = "done"
    /\ n_runs = 1
    /\ subK = 1
    /\ session = [job |-> <<>>, runs |-> <<>>]
    /\ dispatched = <<2>>
    /\ jobs = [id \in {1} |-> NewJob(1)]
    /\ runs = [id \in {2} |-> NewRun(2, 1, 1)]
    /\ queue = {WorkItem(1, 2, 1)}
    /\ storeUp = TRUE
    /\ wk = [w \in Workers |-> IdleWorker]
    /\ ex = NoExec

(* one statement of run_harbor_task on worker w *)
TaskStep(w) ==
    \/ MarkRunning(w)
    \/ JobGet(w)
    \/ JobCommit(w)
    \/ Harness(w)
    \/ Persist(w)
    \/ ReconcileSelectRuns(w)
    \/ ReconcileGetJob(w)
    \/ ReconcileCommit(w)
    \/ RecordFailure(w)
    \/ RetryOrRaise(w)

LiveNext ==
    \/ \E w \in Workers : Receive(w)
    \/ \E w \in Workers : TaskStep(w)
    \/ StoreFails
    \/ StoreRecovers

(* fair scheduling: a queued item is delivered to a worker that stays   *)
(* idle, a worker inside the task takes its next step (the harness      *)
(* call returns or raises), and an unreachable store comes back         *)
LiveSpec ==
    /\ LiveInit
    /\ [][LiveNext]_vars
    /\ \A w \in Workers : WF_vars(Receive(w))
    /\ \A w \in Workers : WF_vars(TaskStep(w))
    /\ WF_vars(StoreRecovers)

(* C34: under fair scheduling, with every harness call returning, each *)
(* dispatched Run eventually has a stored status of Completed or       *)
(* Failed and keeps a terminal status from then on, also when store    *)
(* writes of the task, the one in the failure handler included, fail.  *)
C34_RunsEndTerminal ==
    <>[](\A r \in Range(dispatched) :
            r \in DOMAIN runs /\ runs[r].status \in Terminal)

(* ------------------------------------------------------------------ *)
(* The outcome of run_task and the stored Run                          *)
(* ------------------------------------------------------------------ *)

(* the Run row holds what the outcome of the attempt says *)
StoredIsOutcome ==
    LET run == runs[ex.task.run_id]
    IN /\ (run.status = COMPLETED) <=> (ex.outcome.status = "completed")
       /\ (run.status = FAILED) <=> (ex.outcome.status # "completed")
       /\ run.tests_passed = ex.outcome.tests_passed
       /\ run.tests_total = ex.outcome.tests_total
       /\ run.error.null = ~ex.outcome.has_error
       /\ ex.outcome.has_error => run.error.text = ex.outcome.error

(* the attempt whose executor call returned has left the task *)
ReturnedAttemptEnded ==
    /\ ex.pc \in {"persisted", "recorded", "unrecorded"}
    /\ ex.outcome # NoOutcome

C36_TimestampsAgreeWithStatus ==
    \A r \in DOMAIN runs :
        /\ (runs[r].started_at # NoTime) <=> (runs[r].status # PENDING)
        /\ (runs[r].completed_at # NoTime) <=> (runs[r].status \in Terminal)

(* the Run or the Job of the work item worker w holds is not in the    *)
(* store                                                                *)
UnknownItem(w) ==
    \/ wk[w].task.run_id \notin DOMAIN runs
    \/ wk[w].task.job_id \notin DOMAIN jobs

(* C37: a worker holding a work item whose Run or Job is not in the    *)
(* store does not invoke the harness for it, and its steps neither      *)
(* create nor alter a Job or Run row.                                   *)
C37_UnknownItemNotExecuted ==
    [][\A w \in Workers :
          (Active(w) /\ wk'[w] # wk[w] /\ UnknownItem(w))
            => /\ wk[w].pc # "harness"
               /\ runs' = runs
               /\ jobs' = jobs]_vars

(* the state after a submission of two Runs has committed: Job 1 with  *)
(* Runs 2 and 3, both work items in the queue                           *)
CommittedInit ==
    /\ subPc = "done"
    /\ n_runs = 2
    /\ subK = 2
    /\ session = [job |-> <<>>, runs |-> <<>>]
    /\ dispatched = <<2, 3>>
    /\ jobs = [id \in {1} |-> NewJob(1)]
    /\ runs = (2 :> NewRun(2, 1, 1)) @@ (3 :> NewRun(3, 1, 2))
    /\ queue = {WorkItem(1, 2, 1), WorkItem(1, 3, 2)}
    /\ storeUp = TRUE
    /\ wk = [w \in Workers |-> IdleWorker]
    /\ ex = NoExec

(* the worker pool on committed rows, the store failing and recovering *)
CommittedSpec == CommittedInit /\ [][LiveNext]_vars

(* the position of a Job status in Pending, Running, Completed *)
JobRank(status) ==
    IF status = PENDING THEN 0 ELSE IF status = RUNNING THEN 1 ELSE 2

(* C38: the status of a Job only moves forward through Pending,        *)
(* Running, Completed: no step changes a Job from Running to Pending   *)
(* or from Completed to Running or Pending.                            *)
C38_JobStatusForward ==
    [][\A j \in DOMAIN jobs :
          JobRank(jobs'[j].status) >= JobRank(jobs[j].status)]_vars

(* ------------------------------------------------------------------ *)
(* Episode extraction: read_episode_files                              *)
(* ------------------------------------------------------------------ *)

(* the largest N of an agent/episode-N directory *)
MaxEpisode == 10

(* str order of two names "episode-<a>" and "episode-<b>", given the   *)
(* digits of a and b: the first differing character decides, and a     *)
(* name that is the beginning of the other comes first                  *)
RECURSIVE str_less(_, _)
str_less(a, b) ==
    IF a = <<>> THEN b # <<>>
    ELSE IF b = <<>> THEN FALSE
    ELSE IF Head(a) # Head(b) THEN Head(a) < Head(b)
    ELSE str_less(Tail(a), Tail(b))

(* sorted(agent_dir.glob("episode-*")), as the sequence of the N *)
RECURSIVE sorted_episode_dirs(_)
sorted_episode_dirs(ns) ==
    IF ns = {} THEN <<>>
    ELSE LET first == CHOOSE n \in ns :
                        \A m \in ns \ {n} : str_less(Digits(n), Digits(m))
         IN <<first>> \o sorted_episode_dirs(ns \ {first})

(* read_episode_files: one record per entry of the sorted listing, its *)
(* episode_number the position in the listing; dir is the N of the     *)
(* directory whose prompt and response files the record was built from *)
read_episode_files(ns) ==
    LET episode_dirs == sorted_episode_dirs(ns)
    IN [idx \in 1..Len(episode_dirs) |->
          [episode_number |-> idx - 1, dir |-> episode_dirs[idx]]]

(* a result directory holding any set of episode-N directories *)
EpisodeInit ==
    /\ subPc = "idle"
    /\ n_runs = 0
    /\ subK = 0
    /\ session = [job |-> <<>>, runs |-> <<>>]
    /\ dispatched = <<>>
    /\ jobs = <<>>
    /\ runs = <<>>
    /\ queue = {}
    /\ storeUp = TRUE
    /\ wk = [w \in Workers |-> IdleWorker]
    /\ \E ns \in SUBSET (0..MaxEpisode) :
          ex = [pc |-> "episodes", dirs |-> ns, episodes |-> <<>>]

ReadEpisodes ==
    /\ ex.pc = "episodes"
    /\ ex' = [ex EXCEPT !.pc = "episodes_read",
                        !.episodes = read_episode_files(ex.dirs)]
    /\ UNCHANGED <<subPc, n_runs, subK, session, dispatched, jobs, runs,
                   queue, storeUp, wk>>

EpisodeSpec == EpisodeInit /\ [][ReadEpisodes]_vars

(* C39: episode extraction returns one record per episode-N directory, *)
(* in increasing numeric order of N, and the episode index of each     *)
(* record is the N of its directory, with ten or more episodes too.    *)
C39_EpisodesInNumericOrder ==
    ex.pc = "episodes_read" =>
      /\ Len(ex.episodes) = Cardinality(ex.dirs)
      /\ {ex.episodes[i].dir : i \in DOMAIN ex.episodes} = ex.dirs
      /\ \A i, j \in DOMAIN ex.episodes :
            i < j => ex.episodes[i].dir < ex.episodes[j].dir
      /\ \A i \in DOMAIN ex.episodes :
            ex.episodes[i].episode_number = ex.episodes[i].dir

====
